---- MODULE Spec2Model ----
(***************************************************************************)
(* pytest-dir-equal, syrupy extension: the path snapshot store             *)
(* (PathSnapshotExtension), the serialized path comparison                 *)
(* (SerializedPath, FileDiff, DirDiff) and the word diff (wdiff).          *)
(*                                                                         *)
(* The file system is a function from paths (sequences of names) to        *)
(* nodes.  A byte is a natural number, a text character its code point.    *)
(***************************************************************************)
EXTENDS Integers, Sequences, FiniteSets, TLC

VARIABLES
    fs,      \* the file system: path -> node, its domain the paths that exist
    last,    \* the last operation and what it returned or raised
    dd,      \* the DirDiff tree built by the last comparison (rel path -> node)
    lines    \* the lines yielded by the last diff_lines()

vars == <<fs, last, dd, lines>>

----------------------------------------------------------------------------
(* Bounds of the model *)

\* longest file content, in bytes
MaxLen == 2
\* most entries below the tested path, and most made by hand below a snapshot
MaxEntries == 2
\* deepest entry made below the tested path or below a snapshot
MaxDepth == 2
MaxNames == 3
MaxPatterns == 2
MaxLines == 3
MaxChars == 3

----------------------------------------------------------------------------
(* Names, paths and nodes *)

GITKEEPER == "syrupy.gitkeep"

\* the entry names of the model, in the order str.sort() gives them
NameOrder == <<"a", "b", GITKEEPER>>
Names == {NameOrder[i] : i \in 1..Len(NameOrder)}

\* tmp_path / "tested" and tmp_path / "snapshot_collection"
TESTED == <<"tested">>
LOCATION == <<"snapshot_collection">>
SnapshotNames == {"tested", "snapshot"}

\* bytes: LF, CR, "a", and 0x90, which no text decoder accepts on its own
Alphabet == {10, 13, 97, 144}

DirNode == [kind |-> "dir", data |-> <<>>, readable |-> TRUE]
FileNode(data, readable) == [kind |-> "file", data |-> data, readable |-> readable]

exists(f, p) == p \in DOMAIN f
KindOf(f, p) == IF p \in DOMAIN f THEN f[p].kind ELSE "none"
is_dir(f, p) == p \in DOMAIN f /\ f[p].kind = "dir"
is_file(f, p) == p \in DOMAIN f /\ f[p].kind = "file"

IsPrefix(p, q) == Len(p) <= Len(q) /\ SubSeq(q, 1, Len(p)) = p
parent(p) == SubSeq(p, 1, Len(p) - 1)
basename(p) == p[Len(p)]

\* os.listdir / os.scandir: the names below p, in no particular order
listdir(f, p) ==
    {q[Len(p) + 1] : q \in {x \in DOMAIN f : Len(x) = Len(p) + 1 /\ IsPrefix(p, x)}}

\* list.sort() on names
sorted(S) == SelectSeq(NameOrder, LAMBDA n : n \in S)

Put(f, p, node) == [q \in DOMAIN f \cup {p} |-> IF q = p THEN node ELSE f[q]]
RemoveTree(f, p) == [q \in {x \in DOMAIN f : ~IsPrefix(p, x)} |-> f[q]]

Range(s) == {s[i] : i \in 1..Len(s)}

----------------------------------------------------------------------------
(* Reading files: Path.read_bytes, Path.read_text, str.splitlines *)

read_bytes(f, p) == f[p].data
st_size(f, p) == Len(f[p].data)

\* the bytes a text decoder accepts: of the Alphabet, all but the lone 0x90
decodable(data) == \A i \in 1..Len(data) : data[i] < 128

\* text mode reads with universal newlines: "\r\n" and "\r" become "\n"
RECURSIVE universal_newlines(_)
universal_newlines(d) ==
    IF d = <<>> THEN <<>>
    ELSE IF d[1] = 13
         THEN IF Len(d) >= 2 /\ d[2] = 10
              THEN <<10>> \o universal_newlines(SubSeq(d, 3, Len(d)))
              ELSE <<10>> \o universal_newlines(Tail(d))
         ELSE <<d[1]>> \o universal_newlines(Tail(d))

\* Path.read_text(): defined when the bytes decode
read_text(f, p) == universal_newlines(read_bytes(f, p))

\* the characters str.splitlines() breaks a line after
LineBreaks == {10, 11, 12, 13, 28, 29, 30, 133, 8232, 8233}

RECURSIVE SplitFrom(_, _)
SplitFrom(t, cur) ==
    IF t = <<>> THEN (IF cur = <<>> THEN <<>> ELSE <<cur>>)
    ELSE IF t[1] = 13 /\ Len(t) >= 2 /\ t[2] = 10
         THEN <<cur \o <<13, 10>>>> \o SplitFrom(SubSeq(t, 3, Len(t)), <<>>)
         ELSE IF t[1] \in LineBreaks
              THEN <<Append(cur, t[1])>> \o SplitFrom(Tail(t), <<>>)
              ELSE SplitFrom(Tail(t), Append(cur, t[1]))

\* str.splitlines(keepends=True)
splitlines(t) == SplitFrom(t, <<>>)

\* str.rstrip("\n")
RECURSIVE rstrip_newline(_)
rstrip_newline(t) ==
    IF t # <<>> /\ t[Len(t)] = 10 THEN rstrip_newline(SubSeq(t, 1, Len(t) - 1)) ELSE t

----------------------------------------------------------------------------
(* difflib.SequenceMatcher(None, a, b): indexes are 0-based and half-open,    *)
(* as in the code; the element at index i of s is s[i + 1].                   *)

Max(x, y) == IF x >= y THEN x ELSE y
Min(x, y) == IF x <= y THEN x ELSE y

RECURSIVE MatchLen(_, _, _, _, _, _)
MatchLen(a, b, i, j, ahi, bhi) ==
    IF i < ahi /\ j < bhi /\ a[i + 1] = b[j + 1]
    THEN 1 + MatchLen(a, b, i + 1, j + 1, ahi, bhi)
    ELSE 0

\* the blocks <<i, j, k>>, a[i:i+k] = b[j:j+k], that start at a common element
\* of a[alo:ahi] and b[blo:bhi] and run as far as the elements agree
MatchesIn(a, b, alo, ahi, blo, bhi) ==
    {<<c[1], c[2], MatchLen(a, b, c[1], c[2], ahi, bhi)>> :
        c \in {x \in (alo..(ahi - 1)) \X (blo..(bhi - 1)) : a[x[1] + 1] = b[x[2] + 1]}}

\* of the longest blocks the one starting earliest in a, and of those the one
\* starting earliest in b
Longest(hits) ==
    CHOOSE c \in hits :
        \A o \in hits :
            \/ o[3] < c[3]
            \/ o[3] = c[3] /\ c[1] < o[1]
            \/ o[3] = c[3] /\ c[1] = o[1] /\ c[2] <= o[2]

LongestOr(hits, alo, blo) == IF hits = {} THEN <<alo, blo, 0>> ELSE Longest(hits)

find_longest_match(a, b, alo, ahi, blo, bhi) ==
    LongestOr(MatchesIn(a, b, alo, ahi, blo, bhi), alo, blo)

\* get_matching_blocks: the longest match m, then the matches left and right of it
RECURSIVE MatchingBlocksIn(_, _, _, _, _, _)
RECURSIVE MatchingBlocksAround(_, _, _, _, _, _, _)
MatchingBlocksIn(a, b, alo, ahi, blo, bhi) ==
    MatchingBlocksAround(a, b, alo, ahi, blo, bhi,
                         find_longest_match(a, b, alo, ahi, blo, bhi))

MatchingBlocksAround(a, b, alo, ahi, blo, bhi, m) ==
    IF m[3] = 0 THEN <<>>
    ELSE (IF alo < m[1] /\ blo < m[2]
          THEN MatchingBlocksIn(a, b, alo, m[1], blo, m[2]) ELSE <<>>)
         \o <<m>>
         \o (IF m[1] + m[3] < ahi /\ m[2] + m[3] < bhi
             THEN MatchingBlocksIn(a, b, m[1] + m[3], ahi, m[2] + m[3], bhi) ELSE <<>>)

\* adjacent blocks are merged into one
RECURSIVE CollapseBlocks(_, _, _)
CollapseBlocks(blocks, cur, out) ==
    IF blocks = <<>> THEN (IF cur[3] # 0 THEN Append(out, cur) ELSE out)
    ELSE LET b == Head(blocks)
         IN  IF cur[1] + cur[3] = b[1] /\ cur[2] + cur[3] = b[2]
             THEN CollapseBlocks(Tail(blocks), <<cur[1], cur[2], cur[3] + b[3]>>, out)
             ELSE CollapseBlocks(Tail(blocks), b,
                                 IF cur[3] # 0 THEN Append(out, cur) ELSE out)

get_matching_blocks(a, b) ==
    Append(CollapseBlocks(MatchingBlocksIn(a, b, 0, Len(a), 0, Len(b)), <<0, 0, 0>>, <<>>),
           <<Len(a), Len(b), 0>>)

Opcode(tag, i1, i2, j1, j2) == [tag |-> tag, i1 |-> i1, i2 |-> i2, j1 |-> j1, j2 |-> j2]

RECURSIVE OpcodesFrom(_, _, _)
OpcodesFrom(blocks, i, j) ==
    IF blocks = <<>> THEN <<>>
    ELSE LET ai == Head(blocks)[1]
             bj == Head(blocks)[2]
             size == Head(blocks)[3]
             tag == IF i < ai /\ j < bj THEN "replace"
                    ELSE IF i < ai THEN "delete"
                    ELSE IF j < bj THEN "insert"
                    ELSE ""
         IN  (IF tag # "" THEN <<Opcode(tag, i, ai, j, bj)>> ELSE <<>>)
             \o (IF size # 0 THEN <<Opcode("equal", ai, ai + size, bj, bj + size)>> ELSE <<>>)
             \o OpcodesFrom(Tail(blocks), ai + size, bj + size)

get_opcodes(a, b) == OpcodesFrom(get_matching_blocks(a, b), 0, 0)

\* a leading equal code keeps its last n lines, a trailing one its first n
TrimTail(c, n) == Opcode(c.tag, Max(c.i1, c.i2 - n), c.i2, Max(c.j1, c.j2 - n), c.j2)
TrimHead(c, n) == Opcode(c.tag, c.i1, Min(c.i2, c.i1 + n), c.j1, Min(c.j2, c.j1 + n))

\* the loop of get_grouped_opcodes over the trimmed codes
RECURSIVE GroupCodes(_, _, _, _)
GroupCodes(codes, n, group, out) ==
    IF codes = <<>>
    THEN IF group # <<>> /\ ~(Len(group) = 1 /\ group[1].tag = "equal")
         THEN Append(out, group) ELSE out
    ELSE IF Head(codes).tag = "equal" /\ Head(codes).i2 - Head(codes).i1 > n + n
         THEN GroupCodes(Tail(codes), n,
                         <<TrimTail(Head(codes), n)>>,
                         Append(out, Append(group, TrimHead(Head(codes), n))))
         ELSE GroupCodes(Tail(codes), n, Append(group, Head(codes)), out)

\* an empty list of codes stands for one equal line
OrOneEqual(codes) == IF codes = <<>> THEN <<Opcode("equal", 0, 1, 0, 1)>> ELSE codes

TrimFirst(codes, n) ==
    IF codes[1].tag = "equal" THEN [codes EXCEPT ![1] = TrimTail(@, n)] ELSE codes
TrimLast(codes, n) ==
    IF codes[Len(codes)].tag = "equal"
    THEN [codes EXCEPT ![Len(codes)] = TrimHead(@, n)] ELSE codes

get_grouped_opcodes(a, b, n) ==
    GroupCodes(TrimLast(TrimFirst(OrOneEqual(get_opcodes(a, b)), n), n), n, <<>>, <<>>)

----------------------------------------------------------------------------
(* The word diff: added_line_wdiff, removed_line_wdiff, wdiff *)

\* Python's s[i:j]
Slice(s, i, j) == SubSeq(s, i + 1, j)

RECURSIVE Flatten(_)
Flatten(ss) == IF ss = <<>> THEN <<>> ELSE Head(ss) \o Flatten(Tail(ss))

\* "{+", "+}", "[-", "-]"
OpenAdded == <<123, 43>>
CloseAdded == <<43, 125>>
OpenRemoved == <<91, 45>>
CloseRemoved == <<45, 93>>

\* a rendering that keeps the text only the old line has
AddedSpansKeep(a, b, codes) ==
    Flatten([k \in 1..Len(codes) |->
        IF codes[k].tag \in {"replace", "insert"}
        THEN OpenAdded \o Slice(b, codes[k].j1, codes[k].j2) \o CloseAdded
        ELSE Slice(a, codes[k].i1, codes[k].i2)])

\* process_tag of added_line_wdiff, joined over the opcodes
AddedSpans(a, b, codes) ==
    Flatten([k \in 1..Len(codes) |->
        IF codes[k].tag \in {"replace", "insert"}
        THEN OpenAdded \o Slice(b, codes[k].j1, codes[k].j2) \o CloseAdded
        ELSE IF codes[k].tag = "delete" THEN <<>>
        ELSE Slice(a, codes[k].i1, codes[k].i2)])

\* the new line marked as a whole
added_line_wdiff_whole(a, b) == OpenAdded \o b \o CloseAdded

added_line_wdiff(a, b) == AddedSpans(a, b, get_opcodes(a, b))

\* process_tag of removed_line_wdiff, joined over the opcodes
RemovedSpans(a, b, codes) ==
    Flatten([k \in 1..Len(codes) |->
        IF codes[k].tag \in {"replace", "delete"}
        THEN OpenRemoved \o Slice(a, codes[k].i1, codes[k].i2) \o CloseRemoved
        ELSE IF codes[k].tag = "equal" THEN Slice(a, codes[k].i1, codes[k].i2)
        ELSE <<>>])

\* the old line marked as a whole
removed_line_wdiff_whole(a, b) == OpenRemoved \o a \o CloseRemoved

removed_line_wdiff(a, b) == RemovedSpans(a, b, get_opcodes(a, b))

\* difflib._format_range_unified: <<beginning>> or <<beginning, length>>
format_range_unified(start, stop) ==
    LET length == stop - start
    IN  IF length = 1 THEN <<start + 1>>
        ELSE IF length = 0 THEN <<start, length>>
        ELSE <<start + 1, length>>

\* one yielded line: a header ("---", "+++"), a hunk header ("@@") or a body
\* line, whose text starts with the prefix the code writes
Line(kind, text, file, r1, r2) ==
    [kind |-> kind, text |-> text, file |-> file, r1 |-> r1, r2 |-> r2]
BodyLine(kind, text) == Line(kind, text, <<>>, <<>>, <<>>)

\* a replaced range written pair by pair: each removed line followed by its
\* added line
OpcodeLinesInterleaved(a, b, c) ==
    IF c.tag = "equal"
    THEN [k \in 1..(c.i2 - c.i1) |-> BodyLine("equal", <<32>> \o a[c.i1 + k])]
    ELSE IF c.tag = "delete"
    THEN [k \in 1..(c.i2 - c.i1) |-> BodyLine("delete", <<45, 32>> \o a[c.i1 + k])]
    ELSE IF c.tag = "insert"
    THEN [k \in 1..(c.j2 - c.j1) |-> BodyLine("insert", <<43, 32>> \o b[c.j1 + k])]
    ELSE Flatten([k \in 1..Min(c.i2 - c.i1, c.j2 - c.j1) |->
                    <<BodyLine("removed",
                               <<45, 32>> \o removed_line_wdiff(a[c.i1 + k], b[c.j1 + k])),
                      BodyLine("added",
                               <<43, 32>> \o added_line_wdiff(a[c.i1 + k], b[c.j1 + k]))>>])

\* the lines of one opcode of a group
OpcodeLines(a, b, c) ==
    LET paired == Min(c.i2 - c.i1, c.j2 - c.j1)  \* zip() stops at the shorter range
    IN  IF c.tag = "equal"
        THEN [k \in 1..(c.i2 - c.i1) |-> BodyLine("equal", <<32>> \o a[c.i1 + k])]
        ELSE
          (IF c.tag = "delete"
           THEN [k \in 1..(c.i2 - c.i1) |-> BodyLine("delete", <<45, 32>> \o a[c.i1 + k])]
           ELSE <<>>)
          \o (IF c.tag = "replace"
              THEN [k \in 1..paired |->
                       BodyLine("removed",
                                <<45, 32>> \o removed_line_wdiff(a[c.i1 + k], b[c.j1 + k]))]
              ELSE <<>>)
          \o (IF c.tag = "insert"
              THEN [k \in 1..(c.j2 - c.j1) |-> BodyLine("insert", <<43, 32>> \o b[c.j1 + k])]
              ELSE <<>>)
          \o (IF c.tag = "replace"
              THEN [k \in 1..paired |->
                       BodyLine("added",
                                <<43, 32>> \o added_line_wdiff(a[c.i1 + k], b[c.j1 + k]))]
              ELSE <<>>)

GroupLines(a, b, group) ==
    <<Line("@@", <<>>, <<>>,
           format_range_unified(group[1].i1, group[Len(group)].i2),
           format_range_unified(group[1].j1, group[Len(group)].j2))>>
    \o Flatten([k \in 1..Len(group) |-> OpcodeLines(a, b, group[k])])

\* context lines of a hunk, the default of wdiff's n
ContextLines == 3

\* the header pair before the first group, then each group
GroupsLines(a, b, fromfile, tofile, groups) ==
    IF groups = <<>> THEN <<>>
    ELSE <<Line("---", <<>>, fromfile, <<>>, <<>>), Line("+++", <<>>, tofile, <<>>, <<>>)>>
         \o Flatten([g \in 1..Len(groups) |-> GroupLines(a, b, groups[g])])

wdiff(a, b, fromfile, tofile) ==
    GroupsLines(a, b, fromfile, tofile, get_grouped_opcodes(a, b, ContextLines))

----------------------------------------------------------------------------
(* FileDiff *)

RECURSIVE common_suffix(_, _)
common_suffix(left, right) ==
    IF left = <<>> \/ right = <<>> \/ left[Len(left)] # right[Len(right)] THEN <<>>
    ELSE Append(common_suffix(parent(left), parent(right)), left[Len(left)])

FileDiffName(received, snapshot) ==
    IF common_suffix(received, snapshot) # <<>>
    THEN common_suffix(received, snapshot)
    ELSE <<basename(received), "<>", basename(snapshot)>>

\* reset(line.rstrip("\n")) for each line of the diff
Stripped(diff) == [k \in 1..Len(diff) |-> [diff[k] EXCEPT !.text = rstrip_newline(@)]]

BinaryLines(f, received, snapshot, name) ==
    IF st_size(f, received) # st_size(f, snapshot)
    THEN <<Line("binary files sizes differs", <<>>, name, <<>>, <<>>)>>
    ELSE <<Line("binary files content differs", <<>>, name, <<>>, <<>>)>>

\* a shallow comparison: by size
FileDiffBoolSize(f, received, snapshot) == st_size(f, received) # st_size(f, snapshot)

\* FileDiff.__bool__
FileDiffBool(f, received, snapshot) == read_bytes(f, received) # read_bytes(f, snapshot)

\* what stands in the yielded lines for an exception that ends the generator
Raise(error) == Line("raise", <<>>, <<error>>, <<>>, <<>>)

\* the received file taken as the old side of the diff
FileDiffLinesSwapped(f, received, snapshot) ==
    IF ~f[received].readable THEN <<Raise("PermissionError")>>
    ELSE IF ~decodable(read_bytes(f, received))
         THEN BinaryLines(f, received, snapshot, FileDiffName(received, snapshot))
    ELSE IF ~f[snapshot].readable THEN <<Raise("PermissionError")>>
    ELSE IF ~decodable(read_bytes(f, snapshot))
         THEN BinaryLines(f, received, snapshot, FileDiffName(received, snapshot))
    ELSE Stripped(wdiff(splitlines(read_text(f, received)),
                        splitlines(read_text(f, snapshot)),
                        <<"<snapshot>">> \o FileDiffName(received, snapshot),
                        <<"<received>">> \o FileDiffName(received, snapshot)))

\* FileDiff.diff_lines, highlighting disabled (highlight_file, highlight_diff
\* and reset return their argument).  The received file is loaded first; a
\* file without permissions raises, a file that does not decode leads to the
\* binary branch, which reads no content.
FileDiffLines(f, received, snapshot) ==
    IF ~f[received].readable THEN <<Raise("PermissionError")>>
    ELSE IF ~decodable(read_bytes(f, received))
         THEN BinaryLines(f, received, snapshot, FileDiffName(received, snapshot))
    ELSE IF ~f[snapshot].readable THEN <<Raise("PermissionError")>>
    ELSE IF ~decodable(read_bytes(f, snapshot))
         THEN BinaryLines(f, received, snapshot, FileDiffName(received, snapshot))
    ELSE Stripped(wdiff(splitlines(read_text(f, snapshot)),
                        splitlines(read_text(f, received)),
                        <<"<snapshot>">> \o FileDiffName(received, snapshot),
                        <<"<received>">> \o FileDiffName(received, snapshot)))

----------------------------------------------------------------------------
(* DirDiff: filecmp.dircmp with phase0 and phase3 replaced *)

\* fnmatch on the patterns of the model: a literal name, or "*"
fnmatch(name, pattern) == pattern = "*" \/ pattern = name

\* a filter that stops after the first pattern
_filter_first(flist, skip) ==
    IF skip = <<>> THEN flist
    ELSE SelectSeq(flist, LAMBDA x : ~fnmatch(x, Head(skip)))

\* _filter: one pass over the list per pattern, each pass keeps the names the
\* pattern does not match, in their order
RECURSIVE _filter(_, _)
_filter(flist, skip) ==
    IF skip = <<>> THEN flist
    ELSE _filter(SelectSeq(flist, LAMBDA x : ~fnmatch(x, Head(skip))), Tail(skip))

\* os.listdir returns the names in arbitrary order: every enumeration of them
Enumerations(S) == {e \in [1..Cardinality(S) -> S] : Range(e) = S}
os_listdir(f, p) == Enumerations(listdir(f, p))

\* list.sort() of a list of distinct names
list_sort(l) == sorted(Range(l))

\* the filtered, sorted listing for every enumeration os.listdir can return
Listings(f, p, skip) == {list_sort(_filter(e, skip)) : e \in os_listdir(f, p)}

\* filecmp.DEFAULT_IGNORES and dircmp's default hide, [os.curdir, os.pardir]
DEFAULT_IGNORES == <<"RCS", "CVS", "tags", ".git", ".hg", ".bzr", "_darcs", "__pycache__">>
DEFAULT_HIDE == <<".", "..">>

EXCLUDED == <<GITKEEPER>>

\* dircmp.phase0 as the base class has it: hide and ignore only
phase0_dircmp(f, left, right, ignore, hide) ==
    [left |-> left, right |-> right,
     left_list |-> list_sort(_filter(CHOOSE e \in os_listdir(f, left) : TRUE,
                                        hide \o ignore)),
     right_list |-> list_sort(_filter(CHOOSE e \in os_listdir(f, right) : TRUE,
                                        hide \o ignore))]

\* phase0: the filtered, sorted listings of the two sides, from an enumeration
\* of each directory (Listings has the outcome of every enumeration)
phase0(f, left, right, ignore, hide) ==
    [left |-> left, right |-> right,
     left_list |-> list_sort(_filter(CHOOSE e \in os_listdir(f, left) : TRUE,
                                        hide \o ignore \o EXCLUDED)),
     right_list |-> list_sort(_filter(CHOOSE e \in os_listdir(f, right) : TRUE,
                                        hide \o ignore \o EXCLUDED))]

\* the one-sided names attributed to the other side
phase1_swapped(n) ==
    n @@ [common |-> SelectSeq(n.left_list, LAMBDA x : x \in Range(n.right_list)),
          left_only |-> SelectSeq(n.right_list, LAMBDA x : x \notin Range(n.left_list)),
          right_only |-> SelectSeq(n.left_list, LAMBDA x : x \notin Range(n.right_list))]

\* dircmp.phase1: common, left_only, right_only
phase1(n) ==
    n @@ [common |-> SelectSeq(n.left_list, LAMBDA x : x \in Range(n.right_list)),
          left_only |-> SelectSeq(n.left_list, LAMBDA x : x \notin Range(n.right_list)),
          right_only |-> SelectSeq(n.right_list, LAMBDA x : x \notin Range(n.left_list))]

\* dircmp.phase2: the common names by the types of the two entries
phase2(f, n) ==
    n @@ [common_dirs |-> SelectSeq(n.common, LAMBDA x :
                              is_dir(f, Append(n.left, x)) /\ is_dir(f, Append(n.right, x))),
          common_files |-> SelectSeq(n.common, LAMBDA x :
                              is_file(f, Append(n.left, x)) /\ is_file(f, Append(n.right, x))),
          common_funny |-> SelectSeq(n.common, LAMBDA x :
                              f[Append(n.left, x)].kind # f[Append(n.right, x)].kind)]

\* filecmp._cmp(a, b, shallow=False): 0 same, 1 different, 2 funny (OSError)
filecmp_cmp(f, a, b) ==
    IF st_size(f, a) # st_size(f, b) THEN 1
    ELSE IF ~f[a].readable \/ ~f[b].readable THEN 2
    ELSE IF read_bytes(f, a) = read_bytes(f, b) THEN 0
    ELSE 1

\* phase3: same_files, diff_files, funny_files of the common files
phase3(f, n) ==
    n @@ [same_files |-> SelectSeq(n.common_files, LAMBDA x :
                            filecmp_cmp(f, Append(n.left, x), Append(n.right, x)) = 0),
          diff_files |-> SelectSeq(n.common_files, LAMBDA x :
                            filecmp_cmp(f, Append(n.left, x), Append(n.right, x)) = 1),
          funny_files |-> SelectSeq(n.common_files, LAMBDA x :
                            filecmp_cmp(f, Append(n.left, x), Append(n.right, x)) = 2)]

\* the attributes of one DirDiff(left, right, ignore, hide), phases 0 to 3
DirDiffNode(f, left, right, ignore, hide) ==
    phase3(f, phase2(f, phase1(phase0(f, left, right, ignore, hide))))

RECURSIVE DirDiffBool(_, _, _, _, _)
\* a truth value that passes over the entries that could not be compared
DirDiffBoolNoFunny(f, n, ignore, hide) ==
    \/ n.left_only # <<>>
    \/ n.right_only # <<>>
    \/ n.diff_files # <<>>
    \/ \E x \in Range(n.common_dirs) :
          DirDiffBool(f, Append(n.left, x), Append(n.right, x), ignore, hide)

\* DirDiff.__bool__; subdirs holds one DirDiff per common directory (phase4),
\* built with the ignore and hide lists of its parent
DirDiffBoolOf(f, n, ignore, hide) ==
    \/ n.left_only # <<>>
    \/ n.right_only # <<>>
    \/ n.common_funny # <<>>
    \/ n.diff_files # <<>>
    \/ n.funny_files # <<>>
    \/ \E x \in Range(n.common_dirs) :
          DirDiffBool(f, Append(n.left, x), Append(n.right, x), ignore, hide)

\* a truth value that looks at the node's own lists only
DirDiffBoolShallow(f, left, right, ignore, hide) ==
    \/ DirDiffNode(f, left, right, ignore, hide).left_only # <<>>
    \/ DirDiffNode(f, left, right, ignore, hide).right_only # <<>>
    \/ DirDiffNode(f, left, right, ignore, hide).common_funny # <<>>
    \/ DirDiffNode(f, left, right, ignore, hide).diff_files # <<>>
    \/ DirDiffNode(f, left, right, ignore, hide).funny_files # <<>>

DirDiffBool(f, left, right, ignore, hide) ==
    DirDiffBoolOf(f, DirDiffNode(f, left, right, ignore, hide), ignore, hide)

\* the relative paths of the nodes of the DirDiff tree, through subdirs
RECURSIVE DirDiffNodes(_, _, _, _, _, _)
DirDiffNodes(f, left, right, ignore, hide, rel) ==
    {rel} \cup UNION {DirDiffNodes(f, left, right, ignore, hide, Append(rel, x)) :
                        x \in Range(DirDiffNode(f, left \o rel, right \o rel, ignore, hide).common_dirs)}

\* the whole tree: relative path -> attributes and truth value
DirDiffTree(f, left, right, ignore, hide) ==
    [rel \in DirDiffNodes(f, left, right, ignore, hide, <<>>) |->
        [node |-> DirDiffNode(f, left \o rel, right \o rel, ignore, hide),
         different |-> DirDiffBool(f, left \o rel, right \o rel, ignore, hide)]]

\* DirDiff.diff_lines(prefix): differing files, names only in the received
\* tree, names only in the snapshot tree, then each common subdirectory
RECURSIVE DirDiffLines(_, _, _, _, _, _)
RECURSIVE SubdirLines(_, _, _, _, _, _, _)
\* the names only in the snapshot tree reported before the names only in the
\* received tree
DirDiffLinesSwapped(f, n, ignore, hide, prefix) ==
    Flatten([k \in 1..Len(n.diff_files) |->
                FileDiffLines(f, Append(n.left, n.diff_files[k]), Append(n.right, n.diff_files[k]))])
    \o Flatten([k \in 1..Len(n.right_only) |->
                <<Line("+++ N/A", <<>>, <<>>, <<>>, <<>>),
                  Line("--- missing", <<>>, <<"<snapshot>">> \o Append(prefix, n.right_only[k]),
                       <<>>, <<>>)>>])
    \o Flatten([k \in 1..Len(n.left_only) |->
                <<Line("+++ added", <<>>, <<"<received>">> \o Append(prefix, n.left_only[k]),
                       <<>>, <<>>),
                  Line("--- N/A", <<>>, <<>>, <<>>, <<>>)>>])
    \o SubdirLines(f, n.left, n.right, ignore, hide, prefix, n.common_dirs)

DirDiffLinesOf(f, n, ignore, hide, prefix) ==
    Flatten([k \in 1..Len(n.diff_files) |->
                FileDiffLines(f, Append(n.left, n.diff_files[k]), Append(n.right, n.diff_files[k]))])
    \o Flatten([k \in 1..Len(n.left_only) |->
                <<Line("+++ added", <<>>, <<"<received>">> \o Append(prefix, n.left_only[k]),
                       <<>>, <<>>),
                  Line("--- N/A", <<>>, <<>>, <<>>, <<>>)>>])
    \o Flatten([k \in 1..Len(n.right_only) |->
                <<Line("+++ N/A", <<>>, <<>>, <<>>, <<>>),
                  Line("--- missing", <<>>, <<"<snapshot>">> \o Append(prefix, n.right_only[k]),
                       <<>>, <<>>)>>])
    \o SubdirLines(f, n.left, n.right, ignore, hide, prefix, n.common_dirs)

DirDiffLines(f, left, right, ignore, hide, prefix) ==
    DirDiffLinesOf(f, DirDiffNode(f, left, right, ignore, hide), ignore, hide, prefix)

\* the loop over subdirs.items(): prefix is assigned in the loop
SubdirLines(f, left, right, ignore, hide, prefix, dirs) ==
    IF dirs = <<>> THEN <<>>
    ELSE DirDiffLines(f, Append(left, Head(dirs)), Append(right, Head(dirs)), ignore, hide,
                      Append(prefix, Head(dirs)))
         \o SubdirLines(f, left, right, ignore, hide, Append(prefix, Head(dirs)), Tail(dirs))

\* a generator stops at the exception it raises
RECURSIVE UntilRaise(_)
UntilRaise(ls) ==
    IF ls = <<>> THEN <<>>
    ELSE IF Head(ls).kind = "raise" THEN <<Head(ls)>>
    ELSE <<Head(ls)>> \o UntilRaise(Tail(ls))

----------------------------------------------------------------------------
(* SerializedPath *)

\* SerializedPath.diff chooses the comparison by the received path alone
\* bool(self.diff(other)): "raise" when a path cannot be listed or read
SerializedDiffBool(f, self, snapshot) ==
    IF is_dir(f, self)
    THEN IF ~is_dir(f, snapshot) THEN "raise"
         ELSE IF DirDiffBool(f, self, snapshot, DEFAULT_IGNORES, DEFAULT_HIDE)
              THEN "different" ELSE "equal"
    ELSE IF ~is_file(f, self) \/ ~is_file(f, snapshot) THEN "raise"
         ELSE IF ~f[self].readable \/ ~f[snapshot].readable THEN "raise"
         ELSE IF FileDiffBool(f, self, snapshot) THEN "different" ELSE "equal"

\* SerializedPath.__eq__
SerializedEq(f, self, snapshot) ==
    IF SerializedDiffBool(f, self, snapshot) = "raise" THEN "raise"
    ELSE IF SerializedDiffBool(f, self, snapshot) = "equal" THEN "equal" ELSE "different"

\* SerializedPath.diff_lines
SerializedDiffLines(f, self, snapshot) ==
    IF is_dir(f, self)
    THEN IF ~is_dir(f, snapshot) THEN <<Raise("NotADirectoryError")>>
         ELSE UntilRaise(DirDiffLines(f, self, snapshot, DEFAULT_IGNORES, DEFAULT_HIDE, <<>>))
    ELSE IF ~is_file(f, self) THEN <<Raise("FileNotFoundError")>>
         ELSE IF ~is_file(f, snapshot) /\ f[self].readable /\ decodable(read_bytes(f, self))
              THEN <<Raise("IsADirectoryError")>>
         ELSE IF ~is_file(f, snapshot) /\ f[self].readable
              THEN <<Line("binary files sizes differs", <<>>, FileDiffName(self, snapshot),
                          <<>>, <<>>)>>
         ELSE IF ~is_file(f, snapshot) THEN <<Raise("PermissionError")>>
         ELSE FileDiffLines(f, self, snapshot)

----------------------------------------------------------------------------
(* The file system calls of the store: os.makedirs, Path.mkdir, shutil.copy,  *)
(* shutil.copy2, shutil.copytree, Path.write_text.  A file that is not        *)
(* readable has no permission bit set: it can be neither read nor written.    *)

Ancestors(p) == {SubSeq(p, 1, k) : k \in 0..Len(p)}

\* os.makedirs(p, exist_ok=True) fails when p or an ancestor is a file
makedirs_ok(f, p) == \A q \in Ancestors(p) : exists(f, q) => is_dir(f, q)
makedirs(f, p) ==
    [q \in DOMAIN f \cup Ancestors(p) |-> IF q \in DOMAIN f THEN f[q] ELSE DirNode]

\* open(p, "w") succeeds on a missing path and on a file with permissions
writable(f, p) == is_dir(f, parent(p)) /\ (exists(f, p) => is_file(f, p) /\ f[p].readable)

Result(f, ok, empty_dirs) == [fs |-> f, ok |-> ok, empty_dirs |-> empty_dirs]

\* shutil.copy2(src, dst) of a regular file: into dst when dst is a directory
real_dst(f, src, dst) == IF is_dir(f, dst) THEN Append(dst, basename(src)) ELSE dst

copy2(f, src, dst) ==
    IF f[src].readable /\ writable(f, real_dst(f, src, dst))
    THEN Result(Put(f, real_dst(f, src, dst), FileNode(f[src].data, TRUE)), TRUE, {})
    ELSE Result(f, FALSE, {})

\* a callback that records every directory it sees
ignore_callback_all(f, dir) == {dir}

\* the ignore callback of _write_snapshot_collection: a directory without
\* entries is recorded
ignore_callback(f, dir) == IF listdir(f, dir) = {} THEN {dir} ELSE {}

\* one result after another: the errors and the recorded directories add up
Both(one, rest) == Result(rest.fs, one.ok /\ rest.ok, one.empty_dirs \cup rest.empty_dirs)

\* shutil.copytree(src, dst, ignore=ignore, dirs_exist_ok=True): ignore() sees
\* every directory before it is made; the errors of the entries are collected
\* and raised at the end, after every entry was tried
RECURSIVE copytree(_, _, _)
RECURSIVE copy_entries(_, _, _, _)
RECURSIVE copy_rest(_, _, _, _)
copytree(f, src, dst) ==
    IF ~makedirs_ok(f, dst) THEN Result(f, FALSE, ignore_callback(f, src))
    ELSE Both(Result(f, TRUE, ignore_callback(f, src)),
              copy_entries(makedirs(f, dst), src, dst, listdir(f, src)))

copy_entry(f, src, dst) ==
    IF is_dir(f, src) THEN copytree(f, src, dst) ELSE copy2(f, src, dst)

copy_entries(f, src, dst, todo) ==
    IF todo = {} THEN Result(f, TRUE, {})
    ELSE copy_rest(copy_entry(f, Append(src, CHOOSE x \in todo : TRUE),
                                 Append(dst, CHOOSE x \in todo : TRUE)),
                   src, dst, todo \ {CHOOSE x \in todo : TRUE})

copy_rest(one, src, dst, todo) == Both(one, copy_entries(one.fs, src, dst, todo))

----------------------------------------------------------------------------
(* PathSnapshotExtension *)

Target(name) == Append(LOCATION, name)

Outcome(f, raised) == [fs |-> f, raised |-> raised]

\* Path(empty).relative_to(snapshot.data.path)
relative_to(p, base) == SubSeq(p, Len(base) + 1, Len(p))

\* (target / rel_path / GITKEEPER).write_text("") for each path of a set
write_markers(f, ps) ==
    [q \in DOMAIN f \cup ps |-> IF q \in ps THEN FileNode(<<>>, TRUE) ELSE f[q]]

\* the marker of every recorded directory put in the target itself
marker_paths_flat(dirs, data, target) == {Append(target, GITKEEPER) : d \in dirs}

\* target / rel_path / GITKEEPER for each recorded directory
marker_paths(dirs, data, target) ==
    {(target \o relative_to(d, data)) \o <<GITKEEPER>> : d \in dirs}

\* the loop over empty_dirs.  The directories are visited in the order
\* os.scandir listed them, so when a marker cannot be written any of the
\* others may have been written.
write_empty_dirs(c, markers) ==
    IF ~c.ok THEN {Outcome(c.fs, "Error")}
    ELSE IF \A m \in markers : writable(c.fs, m)
         THEN {Outcome(write_markers(c.fs, markers), "none")}
         ELSE {Outcome(write_markers(c.fs, done), "OSError") :
                 done \in SUBSET {m \in markers : writable(c.fs, m)}}

\* a write that clears the target before it copies
write_directory_replace(f, data, target) ==
    write_empty_dirs(copytree(RemoveTree(f, target), data, target),
                     marker_paths(copytree(RemoveTree(f, target), data, target).empty_dirs,
                                  data, target))

\* a write that restores the file system when the copy failed
write_directory_rollback(f, data, target) ==
    IF ~copytree(f, data, target).ok THEN {Outcome(f, "Error")}
    ELSE write_empty_dirs(copytree(f, data, target),
                          marker_paths(copytree(f, data, target).empty_dirs, data, target))

\* _write_snapshot_collection, data a directory: the outcomes it can have
write_directory(f, data, target) ==
    write_empty_dirs(copytree(f, data, target),
                     marker_paths(copytree(f, data, target).empty_dirs, data, target))

\* _write_snapshot_collection, data a regular file
write_file(f, data, target) ==
    IF exists(f, parent(target)) THEN {Outcome(f, "FileExistsError")}
    ELSE IF ~makedirs_ok(f, parent(target)) THEN {Outcome(f, "NotADirectoryError")}
    ELSE LET made == makedirs(f, parent(target))
         IN  IF ~f[data].readable THEN {Outcome(made, "PermissionError")}
             ELSE {Outcome(Put(made, target, FileNode(f[data].data, TRUE)), "none")}

write_snapshot_collection(f, data, name) ==
    IF is_dir(f, data) THEN write_directory(f, data, Target(name))
    ELSE write_file(f, data, Target(name))

\* a removal of the location's own entry that leaves what is below it
delete_snapshots_entry(f, snapshot_location, snapshot_names) ==
    IF ~exists(f, snapshot_location) THEN Outcome(f, "FileNotFoundError")
    ELSE Outcome([q \in DOMAIN f \ {snapshot_location} |-> f[q]], "none")

\* a removal that accepts a missing location (unlink(missing_ok=True))
delete_snapshots_missing_ok(f, snapshot_location, snapshot_names) ==
    Outcome(RemoveTree(f, snapshot_location), "none")

\* a removal of the named snapshots only
delete_snapshots_named(f, snapshot_location, snapshot_names) ==
    IF ~exists(f, snapshot_location) THEN Outcome(f, "FileNotFoundError")
    ELSE Outcome([q \in {x \in DOMAIN f :
                            \A n \in snapshot_names :
                                ~IsPrefix(Append(snapshot_location, n), x)} |-> f[q]],
                 "none")

\* delete_snapshots(snapshot_location, snapshot_names)
delete_snapshots(f, snapshot_location, snapshot_names) ==
    IF is_dir(f, snapshot_location) THEN Outcome(RemoveTree(f, snapshot_location), "none")
    ELSE IF ~exists(f, snapshot_location) THEN Outcome(f, "FileNotFoundError")
    ELSE Outcome(RemoveTree(f, snapshot_location), "none")

\* serialize: the path itself, whatever exclude and include are
serialize(data, exclude, include) == data

\* _read_snapshot_data_from_location: the path, or <<>> for None
read_snapshot_data_from_location(f, snapshot_location, snapshot_name) ==
    IF ~exists(f, Append(snapshot_location, snapshot_name)) THEN <<>>
    ELSE Append(snapshot_location, snapshot_name)

----------------------------------------------------------------------------
(* The state machine: the user's test fills the tested path; syrupy calls the  *)
(* extension to write, delete, read and compare.                                *)

\* contents of the files of a tree: empty, text, not decodable
TreeData == {<<>>, <<97>>, <<144>>}
FileChoices == {FileNode(d, TRUE) : d \in TreeData} \cup {FileNode(<<97>>, FALSE)}

\* all byte strings of at most n bytes
RECURSIVE BytesUpTo(_)
BytesUpTo(n) ==
    IF n = 0 THEN {<<>>}
    ELSE BytesUpTo(n - 1) \cup {Append(d, b) : d \in BytesUpTo(n - 1), b \in Alphabet}

ByteStrings == BytesUpTo(MaxLen)

\* the ignore and hide lists a caller of DirDiff may pass
IgnoreLists == {DEFAULT_IGNORES, <<"a">>}
HideLists == {DEFAULT_HIDE, <<"b">>}

Last(op, name, raised, fresh, ret, eq, args) ==
    [op |-> op, name |-> name, raised |-> raised, fresh |-> fresh, ret |-> ret,
     eq |-> eq, args |-> args]

\* the entries below a directory, at any depth
Below(f, root) == {p \in DOMAIN f : IsPrefix(root, p) /\ p # root}

\* where an entry can be made below root: in root and in its directories
FreeBelow(f, root) ==
    {Append(d, n) : d \in {x \in DOMAIN f : /\ is_dir(f, x)
                                             /\ IsPrefix(root, x)
                                             /\ Len(x) < Len(root) + MaxDepth},
                    n \in Names}
    \ DOMAIN f

Init ==
    /\ \E t \in {DirNode} \cup FileChoices :
          fs = [q \in {<<>>, TESTED} |-> IF q = TESTED THEN t ELSE DirNode]
    /\ last = Last("init", "", "none", FALSE, <<>>, "", <<>>)
    /\ dd = <<>>
    /\ lines = <<>>

Touched == /\ last' = Last("user", "", "none", FALSE, <<>>, "", <<>>)
           /\ dd' = <<>>
           /\ lines' = <<>>

\* the test writes a file: a new one in the tested directory, the tested file
\* itself again, or a file where the snapshot location is expected
UserWriteFile ==
    \E node \in FileChoices :
        /\ \/ \E p \in FreeBelow(fs, TESTED) :
                 /\ Cardinality(Below(fs, TESTED)) < MaxEntries
                 /\ fs' = Put(fs, p, node)
           \/ /\ is_file(fs, TESTED)
              /\ fs[TESTED] # node
              /\ fs' = Put(fs, TESTED, node)
           \/ /\ ~exists(fs, LOCATION)
              /\ fs' = Put(fs, LOCATION, node)
        /\ Touched

\* the test makes a directory in the tested directory
UserMkdir ==
    \E p \in FreeBelow(fs, TESTED) :
        /\ Cardinality(Below(fs, TESTED)) < MaxEntries
        /\ fs' = Put(fs, p, DirNode)
        /\ Touched

\* syrupy stores the tested path as snapshot name
WriteSnapshot ==
    \E name \in SnapshotNames :
      \E out \in write_snapshot_collection(fs, TESTED, name) :
        /\ fs' = out.fs
        /\ last' = Last("write", name, out.raised, ~exists(fs, Target(name)), <<>>, "",
                        <<KindOf(fs, LOCATION)>>)
        /\ dd' = <<>>
        /\ lines' = <<>>

\* syrupy removes the snapshot location
DeleteSnapshots ==
    \E names \in SUBSET SnapshotNames :
        /\ fs' = delete_snapshots(fs, LOCATION, names).fs
        /\ last' = Last("delete", "", delete_snapshots(fs, LOCATION, names).raised, FALSE,
                        <<>>, "", <<KindOf(fs, LOCATION), Cardinality(Below(fs, LOCATION)),
                                    names, {n \in SnapshotNames : exists(fs, Target(n))}>>)
        /\ dd' = <<>>
        /\ lines' = <<>>

ReadSnapshot ==
    \E name \in SnapshotNames :
        /\ last' = Last("read", name, "none", FALSE,
                        read_snapshot_data_from_location(fs, LOCATION, name), "", <<>>)
        /\ dd' = <<>>
        /\ lines' = <<>>
        /\ UNCHANGED fs

\* assert path == snapshot: the stored path is read, then SerializedPath.__eq__
\* and SerializedPath.diff_lines are applied to the two paths
AssertEqual ==
    \E name \in SnapshotNames :
        /\ read_snapshot_data_from_location(fs, LOCATION, name) # <<>>
        /\ last' = Last("assert", name, "none", FALSE, Target(name),
                        SerializedEq(fs, TESTED, Target(name)), <<>>)
        /\ dd' = IF is_dir(fs, TESTED) /\ is_dir(fs, Target(name))
                 THEN DirDiffTree(fs, TESTED, Target(name), DEFAULT_IGNORES, DEFAULT_HIDE)
                 ELSE <<>>
        /\ lines' = SerializedDiffLines(fs, TESTED, Target(name))
        /\ UNCHANGED fs

Next ==
    \/ UserWriteFile
    \/ UserMkdir
    \/ WriteSnapshot
    \/ DeleteSnapshots
    \/ ReadSnapshot
    \/ AssertEqual

Spec == Init /\ [][Next]_vars

----------------------------------------------------------------------------
(* Two regular files with any contents, compared *)

InitFile ==
    /\ \E received \in ByteStrings, snapshot \in ByteStrings :
          fs = [q \in {<<>>, TESTED, LOCATION, Target("tested")} |->
                   IF q = TESTED THEN FileNode(received, TRUE)
                   ELSE IF q = Target("tested") THEN FileNode(snapshot, TRUE)
                   ELSE DirNode]
    /\ last = Last("init", "", "none", FALSE, <<>>, "", <<>>)
    /\ dd = <<>>
    /\ lines = <<>>

NextFile == AssertEqual

SpecFile == InitFile /\ [][NextFile]_vars

----------------------------------------------------------------------------
(* Two directory trees, a received one and a stored one that was changed by   *)
(* hand (a checkout, a fixture), compared with the caller's ignore and hide   *)

InitDir ==
    /\ fs = [q \in {<<>>, TESTED, LOCATION, Target("tested")} |-> DirNode]
    /\ last = Last("init", "", "none", FALSE, <<>>, "", <<>>)
    /\ dd = <<>>
    /\ lines = <<>>

\* a file or a directory appears in the stored tree
StoredEntry ==
    \E p \in FreeBelow(fs, Target("tested")), node \in FileChoices \cup {DirNode} :
        /\ Cardinality(Below(fs, Target("tested"))) < MaxEntries
        /\ fs' = Put(fs, p, node)
        /\ Touched

\* a caller builds DirDiff(received, snapshot, ignore, hide) itself
Compare ==
    \E name \in SnapshotNames, ignore \in IgnoreLists, hide \in HideLists :
        /\ is_dir(fs, TESTED)
        /\ is_dir(fs, Target(name))
        /\ last' = Last("compare", name, "none", FALSE, Target(name),
                        IF DirDiffBool(fs, TESTED, Target(name), ignore, hide)
                        THEN "different" ELSE "equal",
                        <<ignore, hide>>)
        /\ dd' = DirDiffTree(fs, TESTED, Target(name), ignore, hide)
        /\ lines' = UntilRaise(DirDiffLines(fs, TESTED, Target(name), ignore, hide, <<>>))
        /\ UNCHANGED fs

NextDir ==
    \/ UserWriteFile
    \/ UserMkdir
    \/ StoredEntry
    \/ Compare

SpecDir == InitDir /\ [][NextDir]_vars

----------------------------------------------------------------------------
(* Two directory trees with the two directories a and b side by side: each of *)
(* a and b is missing, a file, or a directory with or without a file in it    *)

\* contents and permissions of the files of these trees
SiblingFiles == {FileNode(<<>>, TRUE), FileNode(<<97>>, TRUE), FileNode(<<97>>, FALSE)}

NoEntry == [q \in {} |-> DirNode]

\* what one name can be below root
SiblingChoices(root, n) ==
    {NoEntry}
    \cup {[q \in {Append(root, n)} |-> node] : node \in SiblingFiles \cup {DirNode}}
    \cup {[q \in {Append(root, n), root \o <<n, "a">>} |->
              IF q = Append(root, n) THEN DirNode ELSE node] : node \in SiblingFiles}

\* the trees below root
SiblingTrees(root) ==
    {x @@ y : x \in SiblingChoices(root, "a"), y \in SiblingChoices(root, "b")}

InitTree ==
    /\ \E l \in SiblingTrees(TESTED), r \in SiblingTrees(Target("tested")) :
          fs = [q \in {<<>>, TESTED, LOCATION, Target("tested")} |-> DirNode] @@ l @@ r
    /\ last = Last("init", "", "none", FALSE, <<>>, "", <<>>)
    /\ dd = <<>>
    /\ lines = <<>>

\* what a test passes as exclude or include: nothing (""), or paths("a")
PathFilters == {"", "a"}

\* assert path == snapshot(exclude=..., include=...): syrupy passes the filters
\* to serialize and compares what serialize returns with the stored path
AssertFiltered ==
    \E name \in SnapshotNames, exclude \in PathFilters, include \in PathFilters :
        /\ read_snapshot_data_from_location(fs, LOCATION, name) # <<>>
        /\ last' = Last("assert", name, "none", FALSE, Target(name),
                        SerializedEq(fs, serialize(TESTED, exclude, include), Target(name)),
                        <<exclude, include>>)
        /\ dd' = DirDiffTree(fs, serialize(TESTED, exclude, include), Target(name),
                             DEFAULT_IGNORES, DEFAULT_HIDE)
        /\ lines' = SerializedDiffLines(fs, serialize(TESTED, exclude, include), Target(name))
        /\ UNCHANGED fs

NextTree == Compare

SpecTree == InitTree /\ [][NextTree]_vars

\* the same trees, the received one written over the stored one, again after
\* the test put another file in it
NextMerge ==
    \/ UserWriteFile
    \/ WriteSnapshot

SpecMerge == InitTree /\ [][NextMerge]_vars

\* the same trees, asserted against the stored one with exclude and include
NextAssert == AssertFiltered

SpecAssert == InitTree /\ [][NextAssert]_vars

----------------------------------------------------------------------------
(* _filter applied to a list of names and a list of patterns *)

\* patterns: the literal names, one that matches everything and one that
\* matches none of the names
Patterns == {"a", "b", "*", "RCS"}

RECURSIVE SeqsUpTo(_, _)
SeqsUpTo(S, n) ==
    IF n = 0 THEN {<<>>}
    ELSE SeqsUpTo(S, n - 1) \cup {Append(l, x) : l \in SeqsUpTo(S, n - 1), x \in S}

InitFilter ==
    /\ \E flist \in SeqsUpTo(Names, MaxNames), skip \in SeqsUpTo(Patterns, MaxPatterns) :
          last = Last("init", "", "none", FALSE, <<>>, "", <<flist, skip>>)
    /\ fs = [q \in {<<>>} |-> DirNode]
    /\ dd = <<>>
    /\ lines = <<>>

\* a call of _filter(flist, skip)
Filter ==
    /\ last.op = "init"
    /\ last' = Last("filter", "", "none", FALSE, _filter(last.args[1], last.args[2]), "",
                    last.args)
    /\ UNCHANGED <<fs, dd, lines>>

NextFilter == Filter

SpecFilter == InitFilter /\ [][NextFilter]_vars

----------------------------------------------------------------------------
(* wdiff applied to two lists of lines *)

\* the lines of the lists: "a\n", "b\n", "ab\n"
WdiffLines == {<<97, 10>>, <<98, 10>>, <<97, 98, 10>>}

InitWdiff ==
    /\ \E a \in SeqsUpTo(WdiffLines, MaxLines), b \in SeqsUpTo(WdiffLines, MaxLines) :
          last = Last("init", "", "none", FALSE, <<>>, "", <<a, b>>)
    /\ fs = [q \in {<<>>} |-> DirNode]
    /\ dd = <<>>
    /\ lines = <<>>

\* list(wdiff(a, b, "a", "b"))
Wdiff ==
    /\ last.op = "init"
    /\ last' = Last("wdiff", "", "none", FALSE, <<>>, "", last.args)
    /\ lines' = wdiff(last.args[1], last.args[2], <<"a">>, <<"b">>)
    /\ UNCHANGED <<fs, dd>>

NextWdiff == Wdiff

SpecWdiff == InitWdiff /\ [][NextWdiff]_vars

----------------------------------------------------------------------------
(* added_line_wdiff and removed_line_wdiff applied to two lines *)

\* the characters of the lines: "a", "b", and "{", "}", with which a marker
\* begins and ends
LineAlphabet == {97, 98, 123, 125}

\* "foo bar\n" and "foo baz\n"
FooBar == <<102, 111, 111, 32, 98, 97, 114, 10>>
FooBaz == <<102, 111, 111, 32, 98, 97, 122, 10>>

WordLines == SeqsUpTo(LineAlphabet, MaxChars) \cup {FooBar, FooBaz}

InitLine ==
    /\ \E a \in WordLines, b \in WordLines :
          last = Last("init", "", "none", FALSE, <<>>, "", <<a, b>>)
    /\ fs = [q \in {<<>>} |-> DirNode]
    /\ dd = <<>>
    /\ lines = <<>>

\* added_line_wdiff(a, b) and removed_line_wdiff(a, b)
LineWdiff ==
    /\ last.op = "init"
    /\ last' = Last("line_wdiff", "", "none", FALSE,
                    <<added_line_wdiff(last.args[1], last.args[2]),
                      removed_line_wdiff(last.args[1], last.args[2])>>,
                    "", last.args)
    /\ UNCHANGED <<fs, dd, lines>>

NextLine == LineWdiff

SpecLine == InitLine /\ [][NextLine]_vars

----------------------------------------------------------------------------
(* Properties of the comparison of two directory trees (SpecDir) *)

\* the lists of a node that make it different by themselves, as DirDiff.__bool__
\* reads them
OwnLists(n) == n.left_only \o n.right_only \o n.common_funny \o n.diff_files

\* some child comparison in subdirs is different
ChildDifferent(rel) ==
    \E x \in Range(dd[rel].node.common_dirs) : dd[Append(rel, x)].different

\* C1, as the claim states it: a DirDiff node is different if and only if
\* left_only, right_only, common_funny or diff_files is non-empty or a child
\* comparison in subdirs is different
C1_AsStated ==
    \A rel \in DOMAIN dd :
        dd[rel].different <=> (OwnLists(dd[rel].node) # <<>> \/ ChildDifferent(rel))

\* C1, amended: a DirDiff node is different if and only if left_only,
\* right_only, common_funny, diff_files or funny_files is non-empty or a child
\* comparison in subdirs is different
C1_Different ==
    \A rel \in DOMAIN dd :
        dd[rel].different <=> \/ OwnLists(dd[rel].node) # <<>>
                              \/ dd[rel].node.funny_files # <<>>
                              \/ ChildDifferent(rel)

\* a root whose own lists are empty and whose one child is different through a
\* file that could not be compared
C1_Witness ==
    /\ last.op = "compare"
    /\ DOMAIN dd = {<<>>, <<"a">>}
    /\ dd[<<>>].different
    /\ OwnLists(dd[<<>>].node) = <<>>
    /\ dd[<<>>].node.funny_files = <<>>
    /\ OwnLists(dd[<<"a">>].node) = <<>>
    /\ dd[<<"a">>].node.funny_files # <<>>

\* the file system without the entries named GITKEEPER and what is below them
WithoutMarkers(f) == [q \in {x \in DOMAIN f : GITKEEPER \notin Range(x)} |-> f[q]]

\* every name a node lists
Listed(n) ==
    Range(n.left_list) \cup Range(n.right_list) \cup Range(n.left_only)
    \cup Range(n.right_only) \cup Range(n.common) \cup Range(n.diff_files)
    \cup Range(n.same_files) \cup Range(n.funny_files)

\* C7: at every node of a DirDiff tree, whatever the ignore and hide lists, the
\* marker name occurs in none of left_list, right_list, left_only, right_only,
\* common, diff_files, same_files, funny_files, and the verdict is the one the
\* two trees get with every entry of that name taken away
C7_MarkerExcluded ==
    /\ \A rel \in DOMAIN dd : GITKEEPER \notin Listed(dd[rel].node)
    /\ last.op = "compare" =>
          last.eq = IF DirDiffBool(WithoutMarkers(fs), TESTED, Target(last.name),
                                   last.args[1], last.args[2])
                    THEN "different" ELSE "equal"

\* a marker one level down on the received side only, in a directory that the
\* caller's lists keep, and the trees compare equal
C7_Witness ==
    /\ last.op = "compare"
    /\ last.args # <<DEFAULT_IGNORES, DEFAULT_HIDE>>
    /\ last.eq = "equal"
    /\ <<"b">> \in DOMAIN dd
    /\ exists(fs, TESTED \o <<"b", GITKEEPER>>)
    /\ ~exists(fs, Target(last.name) \o <<"b", GITKEEPER>>)
    /\ dd[<<"b">>].node.left_list = <<>>

----------------------------------------------------------------------------
(* Properties of the comparison of two readable regular files (SpecFile) *)

BothReadableFiles(name) ==
    /\ is_file(fs, TESTED) /\ fs[TESTED].readable
    /\ is_file(fs, Target(name)) /\ fs[Target(name)].readable

\* C2, as the claim states it: for two readable regular files diff_lines()
\* yields no line if and only if the files are byte-for-byte identical
C2_AsStated ==
    (last.op = "assert" /\ BothReadableFiles(last.name)) =>
        (lines = <<>> <=> ~FileDiffBool(fs, TESTED, Target(last.name)))

\* C3: for two readable regular files the comparison reports identical
\* (FileDiff falsy, SerializedPath equal) if and only if all their bytes are equal
C3_Identical ==
    (last.op = "assert" /\ BothReadableFiles(last.name)) =>
        /\ last.eq = "equal" <=> fs[TESTED].data = fs[Target(last.name)].data
        /\ ~FileDiffBool(fs, TESTED, Target(last.name))
              <=> fs[TESTED].data = fs[Target(last.name)].data

\* two files of one size whose text decodes to the same characters, but whose
\* bytes differ, compared and found different
C3_Witness ==
    /\ last.op = "assert"
    /\ BothReadableFiles(last.name)
    /\ fs[TESTED].data = <<97, 13>>
    /\ fs[Target(last.name)].data = <<97, 10>>
    /\ last.eq = "different"

----------------------------------------------------------------------------
(* Properties of the store (Spec) *)

\* the last operation stored the tested path under a name nothing was stored
\* under, and returned
WroteFresh == last.op = "write" /\ last.fresh /\ last.raised = "none"

\* the directories of the tested tree, the tested directory included
SourceDirs == {d \in {TESTED} \cup Below(fs, TESTED) : is_dir(fs, d)}

\* where the store puts the copy of a path of the tested tree
Stored(p) == Target(last.name) \o relative_to(p, TESTED)

\* C4, as the claim states it: after a file or a directory tree is stored
\* under a fresh name, reading the name back returns a path, and comparing the
\* source against it reports no difference and yields no diff line
C4_AsStated ==
    WroteFresh =>
        /\ read_snapshot_data_from_location(fs, LOCATION, last.name) # <<>>
        /\ SerializedEq(fs, TESTED, Target(last.name)) = "equal"
        /\ SerializedDiffLines(fs, TESTED, Target(last.name)) = <<>>

\* C5: after a tree is stored under a fresh name, the copy of every empty
\* directory of the tree, the root included, has exactly one entry, the
\* zero-byte marker file, and DirDiff reports that directory and the whole tree
\* as equal
C5_EmptyDirectory ==
    (WroteFresh /\ is_dir(fs, TESTED)) =>
        /\ \A d \in SourceDirs :
              listdir(fs, d) = {} =>
                  /\ listdir(fs, Stored(d)) = {GITKEEPER}
                  /\ fs[Append(Stored(d), GITKEEPER)] = FileNode(<<>>, TRUE)
                  /\ ~DirDiffBool(fs, d, Stored(d), DEFAULT_IGNORES, DEFAULT_HIDE)
        /\ ~DirDiffBool(fs, TESTED, Target(last.name), DEFAULT_IGNORES, DEFAULT_HIDE)

\* a stored tree with an empty directory next to a file
C5_Witness ==
    /\ WroteFresh
    /\ is_dir(fs, TESTED \o <<"a">>)
    /\ listdir(fs, TESTED \o <<"a">>) = {}
    /\ is_file(fs, TESTED \o <<"b">>)
    /\ listdir(fs, Stored(TESTED \o <<"a">>)) = {GITKEEPER}

\* every regular file of the tested tree is stored at its relative path with
\* its content
FilesStored ==
    \A p \in Below(fs, TESTED) :
        is_file(fs, p) => is_file(fs, Stored(p)) /\ fs[Stored(p)].data = fs[p].data

\* C6, as the claim states it: after a tree is stored under a fresh name, a
\* stored directory contains the marker if and only if the source directory
\* has no entries, and every regular file is stored with its content
C6_AsStated ==
    (WroteFresh /\ is_dir(fs, TESTED)) =>
        /\ \A d \in SourceDirs :
              exists(fs, Append(Stored(d), GITKEEPER)) <=> listdir(fs, d) = {}
        /\ FilesStored

\* C6, amended: after a tree is stored under a fresh name, a stored directory
\* contains an entry of the marker name if and only if the source directory
\* has no entries or has an entry of that name itself, and every regular file
\* is stored with its content
C6_MarkerIffEmpty ==
    (WroteFresh /\ is_dir(fs, TESTED)) =>
        /\ \A d \in SourceDirs :
              exists(fs, Append(Stored(d), GITKEEPER))
                  <=> (listdir(fs, d) = {} \/ GITKEEPER \in listdir(fs, d))
        /\ FilesStored

\* a stored tree whose root holds only a directory that holds only an empty
\* directory: the innermost copy alone has the marker
C6_Witness ==
    /\ WroteFresh
    /\ listdir(fs, TESTED) = {"a"}
    /\ listdir(fs, TESTED \o <<"a">>) = {"b"}
    /\ is_dir(fs, TESTED \o <<"a", "b">>)
    /\ ~exists(fs, Append(Target(last.name), GITKEEPER))
    /\ ~exists(fs, Target(last.name) \o <<"a", GITKEEPER>>)
    /\ exists(fs, Target(last.name) \o <<"a", "b", GITKEEPER>>)

\* C8, as the claim states it: storing a readable regular file returns and
\* leaves a regular file with the same bytes at location/name, whether the
\* location directory existed before or not
C8_AsStated ==
    (/\ last.op = "write"
     /\ is_file(fs, TESTED) /\ fs[TESTED].readable
     /\ last.args[1] \in {"none", "dir"}) =>
        /\ last.raised = "none"
        /\ is_file(fs, Target(last.name))
        /\ fs[Target(last.name)].data = fs[TESTED].data

\* C9: delete_snapshots on a location that exists returns, and afterwards
\* neither the location nor any path below it exists
C9_DeleteRemovesAll ==
    (last.op = "delete" /\ last.args[1] # "none") =>
        /\ last.raised = "none"
        /\ ~exists(fs, LOCATION)
        /\ Below(fs, LOCATION) = {}

\* a location directory with a snapshot directory, a nested directory and a
\* file in it, deleted
C9_Witness ==
    /\ last.op = "delete"
    /\ last.args[1] = "dir"
    /\ last.args[2] >= 3
    /\ last.raised = "none"
    /\ ~exists(fs, LOCATION)

\* C10: delete_snapshots on a location that does not exist raises
\* FileNotFoundError and changes no path; so does a delete that follows a
\* delete that returned
C10_DeleteMissing ==
    [][last'.op = "delete" =>
          /\ ~exists(fs, LOCATION) =>
                (last'.raised = "FileNotFoundError" /\ fs' = fs)
          /\ (last.op = "delete" /\ last.raised = "none") =>
                (last'.raised = "FileNotFoundError" /\ fs' = fs)]_vars

\* a delete of a missing location that raised and left the tested path alone
C10_Witness ==
    /\ last.op = "delete"
    /\ last.args[1] = "none"
    /\ last.raised = "FileNotFoundError"
    /\ Below(fs, TESTED) # {}

----------------------------------------------------------------------------
(* Properties of the lines of a directory comparison (SpecTree) *)

\* the paths the lines of one kind report
Reported(kind) == {lines[k].file : k \in {i \in 1..Len(lines) : lines[i].kind = kind}}

\* the generator ran to its end
Completed == \A k \in 1..Len(lines) : lines[k].kind # "raise"

\* the one-sided names of every node, each with the directories walked from
\* the root to it
OneSided(side, rel) ==
    {<<side>> \o rel \o <<x>> :
        x \in Range(IF side = "<received>" THEN dd[rel].node.left_only
                    ELSE dd[rel].node.right_only)}

\* C11, as the claim states it: every added and every missing line reports
\* its entry by the directories walked from the root followed by the name, at
\* every depth and for every one of several common subdirectories
C11_AsStated ==
    last.op = "compare" =>
        /\ Reported("+++ added") \subseteq UNION {OneSided("<received>", rel) : rel \in DOMAIN dd}
        /\ Reported("--- missing") \subseteq UNION {OneSided("<snapshot>", rel) : rel \in DOMAIN dd}
        /\ Completed =>
              /\ Reported("+++ added") = UNION {OneSided("<received>", rel) : rel \in DOMAIN dd}
              /\ Reported("--- missing") = UNION {OneSided("<snapshot>", rel) : rel \in DOMAIN dd}

\* an added or a missing line with the name of its entry alone
Unprefixed(ls) ==
    [k \in 1..Len(ls) |->
        IF ls[k].kind \in {"+++ added", "--- missing"}
        THEN [ls[k] EXCEPT !.file = <<ls[k].file[Len(ls[k].file)]>>]
        ELSE ls[k]]

\* the lines of one node by its sets of names, each set in ascending order: the
\* differing files, the added names, the missing names
NodeLines(n) ==
    Flatten([k \in 1..Len(sorted(Range(n.diff_files))) |->
                FileDiffLines(fs, Append(n.left, sorted(Range(n.diff_files))[k]),
                              Append(n.right, sorted(Range(n.diff_files))[k]))])
    \o Flatten([k \in 1..Len(sorted(Range(n.left_only))) |->
                <<Line("+++ added", <<>>, <<sorted(Range(n.left_only))[k]>>, <<>>, <<>>),
                  Line("--- N/A", <<>>, <<>>, <<>>, <<>>)>>])
    \o Flatten([k \in 1..Len(sorted(Range(n.right_only))) |->
                <<Line("+++ N/A", <<>>, <<>>, <<>>, <<>>),
                  Line("--- missing", <<>>, <<sorted(Range(n.right_only))[k]>>, <<>>, <<>>)>>])

\* the lines of a node followed by the lines of its common subdirectories in
\* ascending order
RECURSIVE TreeLines(_)
TreeLines(rel) ==
    NodeLines(dd[rel].node)
    \o Flatten([k \in 1..Len(sorted(Range(dd[rel].node.common_dirs))) |->
                TreeLines(Append(rel, sorted(Range(dd[rel].node.common_dirs))[k]))])

\* C12: the lines of a directory comparison are, node by node, the diffs of the
\* differing common files, the added blocks of left_only, the missing blocks of
\* right_only and then the lines of each common subdirectory, every group in
\* ascending order of names; the listings, and so the lines, are the same for
\* every order in which the file system enumerates a directory
C12_Order ==
    last.op = "compare" =>
        /\ Unprefixed(lines) = UntilRaise(Unprefixed(TreeLines(<<>>)))
        /\ \A rel \in DOMAIN dd :
              /\ Listings(fs, dd[rel].node.left, last.args[2] \o last.args[1] \o EXCLUDED)
                    = {dd[rel].node.left_list}
              /\ Listings(fs, dd[rel].node.right, last.args[2] \o last.args[1] \o EXCLUDED)
                    = {dd[rel].node.right_list}

\* a differing file a, then a common subdirectory b with one name on each side:
\* file diff, then the added and the missing block of b
C12_Witness ==
    /\ last.op = "compare"
    /\ Completed
    /\ dd[<<>>].node.diff_files = <<"a">>
    /\ dd[<<>>].node.common_dirs = <<"b">>
    /\ dd[<<"b">>].node.left_only # <<>>
    /\ lines[1].kind = "---"
    /\ lines[Len(lines) - 1].kind = "+++ added"

\* the funny entries of a node: common names of two types, and common files
\* whose comparison failed
Funny(rel) == dd[rel].node.common_funny \o dd[rel].node.funny_files

\* the paths of the funny entries, on both sides
FunnyPaths ==
    UNION {UNION {{Append(dd[rel].node.left, x), Append(dd[rel].node.right, x)} :
                     x \in Range(Funny(rel))} : rel \in DOMAIN dd}

\* the file system as if the funny entries were absent
WithoutFunny ==
    [q \in {x \in DOMAIN fs : \A p \in FunnyPaths : ~IsPrefix(p, x)} |-> fs[q]]

\* C13: a funny entry makes its node and every ancestor different, and the
\* lines of the comparison, its end included, are the lines of the same
\* comparison without the funny entries: they add no line and end nothing
C13_Funny ==
    last.op = "compare" =>
        /\ \A rel \in DOMAIN dd :
              Funny(rel) # <<>> => \A k \in 0..Len(rel) : dd[SubSeq(rel, 1, k)].different
        /\ lines = UntilRaise(DirDiffLines(WithoutFunny, TESTED, last.ret,
                                           last.args[1], last.args[2], <<>>))

\* a file that could not be compared in the subdirectory b, next to a name a
\* that is only in the received tree: the root is different, the comparison
\* ran to its end and a alone is reported
C13_Witness ==
    /\ last.op = "compare"
    /\ Completed
    /\ dd[<<>>].node.left_only = <<"a">>
    /\ dd[<<>>].node.common_dirs = <<"b">>
    /\ dd[<<"b">>].node.funny_files = <<"a">>
    /\ OwnLists(dd[<<"b">>].node) = <<>>
    /\ dd[<<>>].different
    /\ Len(lines) = 2

----------------------------------------------------------------------------
(* Properties of the lists of a directory comparison (SpecDir) *)

\* the names of a directory that no pattern of hide, ignore or EXCLUDED matches
Kept(dir) ==
    {x \in listdir(fs, dir) :
        \A k \in 1..Len(last.args[2] \o last.args[1] \o EXCLUDED) :
            ~fnmatch(x, (last.args[2] \o last.args[1] \o EXCLUDED)[k])}

\* the lists of node n account for the names on one side only
OneSidedListed(n, different) ==
    /\ \A x \in Kept(n.left) \ Kept(n.right) :
          /\ x \in Range(n.left_only)
          /\ x \notin Range(n.right_only) \cup Range(n.diff_files)
          /\ different
    /\ \A x \in Kept(n.right) \ Kept(n.left) :
          /\ x \in Range(n.right_only)
          /\ x \notin Range(n.left_only) \cup Range(n.diff_files)
          /\ different

\* C14: a name kept by the filters on one side only is in left_only when the
\* received tree has it and in right_only when the snapshot has it, never in
\* both and never in diff_files, and the tree is different; diff_files is empty
\* when the common files are byte-identical; a received directory with no kept
\* name differs from a snapshot with one, and the other way round
C14_OneSided ==
    last.op = "compare" =>
        /\ \A rel \in DOMAIN dd :
              /\ OneSidedListed(dd[rel].node, dd[rel].different /\ last.eq = "different")
              /\ (\A x \in Range(dd[rel].node.common_files) :
                      fs[Append(dd[rel].node.left, x)].data = fs[Append(dd[rel].node.right, x)].data)
                    => dd[rel].node.diff_files = <<>>
        /\ (Kept(TESTED) = {}) # (Kept(last.ret) = {}) => last.eq = "different"

\* an empty received directory against a snapshot with the file b
C14_Witness ==
    /\ last.op = "compare"
    /\ listdir(fs, TESTED) = {}
    /\ dd[<<>>].node.right_only = <<"b">>
    /\ dd[<<>>].node.left_only = <<>>
    /\ dd[<<>>].node.diff_files = <<>>
    /\ last.eq = "different"

----------------------------------------------------------------------------
(* Properties of the lines of a file comparison (SpecFile) *)

\* one of the two files does not decode as text
SomeBinary(name) ==
    \/ ~decodable(read_bytes(fs, TESTED))
    \/ ~decodable(read_bytes(fs, Target(name)))

TextPair(name) == BothReadableFiles(name) /\ ~SomeBinary(name)

\* the lines of the two files, as diff_lines splits them
SnapshotLines(name) == splitlines(read_text(fs, Target(name)))
ReceivedLines == splitlines(read_text(fs, TESTED))

----------------------------------------------------------------------------
(* Properties of _filter (SpecFilter) *)

\* some pattern of the list matches the name
Matches(x, skip) == \E k \in 1..Len(skip) : fnmatch(x, skip[k])

\* C16: _filter returns the names that no pattern matches, in their order in
\* the list; without a pattern, or when no pattern matches a name, the list
\* comes back unchanged; with the pattern "*" the result is the empty list
C16_Filter ==
    last.op = "filter" =>
        /\ last.ret = SelectSeq(last.args[1], LAMBDA x : ~Matches(x, last.args[2]))
        /\ (\A k \in 1..Len(last.args[1]) : ~Matches(last.args[1][k], last.args[2]))
              => last.ret = last.args[1]
        /\ "*" \in Range(last.args[2]) => last.ret = <<>>

\* a name dropped by the second pattern, the others kept in their order
C16_Witness ==
    /\ last.op = "filter"
    /\ last.args = <<(<<"b", "a", GITKEEPER>>), (<<"RCS", "a">>)>>
    /\ last.ret = <<"b", GITKEEPER>>

----------------------------------------------------------------------------
(* Properties of an assertion with exclude and include (SpecAssert) *)

\* the file system without the entries of the received tree that take no part:
\* those paths(exclude) matches and those paths(include) does not match
WithoutFiltered(exclude, include) ==
    [q \in {x \in DOMAIN fs :
                ~(/\ IsPrefix(TESTED, x)
                  /\ Len(x) > Len(TESTED)
                  /\ \/ exclude # "" /\ x[Len(TESTED) + 1] = exclude
                     \/ include # "" /\ x[Len(TESTED) + 1] # include)} |-> fs[q]]

\* C17, as the claim states it: with exclude=paths(P) the received entries
\* that match P, and with include=paths(P) those that do not, take no part in
\* the comparison: the result is the result for the received tree without them
C17_AsStated ==
    last.op = "assert" =>
        last.eq = SerializedEq(WithoutFiltered(last.args[1], last.args[2]), TESTED, last.ret)

----------------------------------------------------------------------------
(* Properties of the hunks of wdiff (SpecWdiff) *)

\* the texts of the lines after the two header lines and the hunk header
HunkBody == [k \in 1..(Len(lines) - 3) |-> lines[k + 3].text]

\* each line of ls after a sign and a space
Plain(sign, ls) == [k \in 1..Len(ls) |-> <<sign, 32>> \o ls[k]]

\* a replace opcode with as many old lines as new ones, or not
UnequalReplace(c) == c.tag = "replace" /\ c.i2 - c.i1 # c.j2 - c.j1

\* the lines of an opcode as the claims state them: an equal line after a
\* space; a deleted line after "- "; an inserted line after "+ "; for a replace
\* of k lines by k lines the k removed_line_wdiff lines then the k
\* added_line_wdiff lines; for a replace of unequal ranges every old line after
\* "- " and every new line after "+ "
StatedLines(a, b, c) ==
    IF c.tag = "equal" THEN [k \in 1..(c.i2 - c.i1) |-> <<32>> \o a[c.i1 + k]]
    ELSE IF c.tag = "delete" THEN Plain(45, Slice(a, c.i1, c.i2))
    ELSE IF c.tag = "insert" THEN Plain(43, Slice(b, c.j1, c.j2))
    ELSE IF UnequalReplace(c) THEN Plain(45, Slice(a, c.i1, c.i2)) \o Plain(43, Slice(b, c.j1, c.j2))
    ELSE [k \in 1..(c.i2 - c.i1) |-> <<45, 32>> \o removed_line_wdiff(a[c.i1 + k], b[c.j1 + k])]
         \o [k \in 1..(c.i2 - c.i1) |-> <<43, 32>> \o added_line_wdiff(a[c.i1 + k], b[c.j1 + k])]

\* C18, as the claim states it: the lines of a hunk are the stated lines of its
\* opcodes, and those of a replace of unequal ranges are all its old lines as
\* plain "-" lines then all its new lines as plain "+" lines
C18_AsStated ==
    (last.op = "wdiff" /\ lines # <<>>) =>
        HunkBody = Flatten([k \in 1..Len(get_opcodes(last.args[1], last.args[2])) |->
                              StatedLines(last.args[1], last.args[2],
                                          get_opcodes(last.args[1], last.args[2])[k])])

\* body is made of the stated lines of the opcodes, in their order, with any
\* lines in the place of a replace of unequal ranges
RECURSIVE Fits(_, _, _, _)
FitsHead(body, a, b, codes, stated) ==
    /\ Len(stated) <= Len(body)
    /\ SubSeq(body, 1, Len(stated)) = stated
    /\ Fits(SubSeq(body, Len(stated) + 1, Len(body)), a, b, Tail(codes))

Fits(body, a, b, codes) ==
    IF codes = <<>> THEN body = <<>>
    ELSE IF UnequalReplace(Head(codes))
    THEN \E n \in 0..Len(body) : Fits(SubSeq(body, n + 1, Len(body)), a, b, Tail(codes))
    ELSE FitsHead(body, a, b, codes, StatedLines(a, b, Head(codes)))

\* C19: in a hunk each line of an equal range is written once after a space,
\* each line of a delete range once after "- ", each line of an insert range
\* once after "+ ", and a replace of k lines by k lines as the k removed lines
\* of removed_line_wdiff then the k added lines of added_line_wdiff, the i-th
\* old line paired with the i-th new one
C19_Hunk ==
    (last.op = "wdiff" /\ lines # <<>>) =>
        /\ Len(lines) > 3
        /\ Fits(HunkBody, last.args[1], last.args[2],
                get_opcodes(last.args[1], last.args[2]))

\* "a", "a", "ab" against "b", "b", "ab": two lines replaced by two, then an
\* equal line
C19_Witness ==
    /\ last.op = "wdiff"
    /\ last.args = <<(<<(<<97, 10>>), (<<97, 10>>), (<<97, 98, 10>>)>>),
                     (<<(<<98, 10>>), (<<98, 10>>), (<<97, 98, 10>>)>>)>>
    /\ Len(lines) = 8
    /\ lines[4].kind = "removed" /\ lines[5].kind = "removed"
    /\ lines[6].kind = "added" /\ lines[7].kind = "added"
    /\ lines[8].text = <<32, 97, 98, 10>>

\* the body lines of the hunk whose header is line k: those after k up to the
\* next hunk header
HunkLines(k) ==
    {j \in (k + 1)..Len(lines) : \A i \in (k + 1)..j : lines[i].kind # "@@"}

\* the body lines of hunk k that begin with one of the signs
Signed(k, signs) == {j \in HunkLines(k) : lines[j].text[1] \in signs}

\* the length a range of a hunk header announces: 1 when ",len" is left out
RangeLength(r) == IF Len(r) = 1 THEN 1 ELSE r[2]

\* C25, as the claim states it: in every hunk the context and removed lines
\* of the body are as many as the old range of the header announces, and the
\* context and added lines as many as the new range announces
C25_AsStated ==
    last.op = "wdiff" =>
        \A k \in {i \in 1..Len(lines) : lines[i].kind = "@@"} :
            /\ Cardinality(Signed(k, {32, 45})) = RangeLength(lines[k].r1)
            /\ Cardinality(Signed(k, {32, 43})) = RangeLength(lines[k].r2)

----------------------------------------------------------------------------
(* Properties of added_line_wdiff and removed_line_wdiff (SpecLine) *)

\* C21: for the same line on both sides added_line_wdiff and
\* removed_line_wdiff return the line itself, the empty line included
C21_SameLine ==
    (last.op = "line_wdiff" /\ last.args[1] = last.args[2]) =>
        /\ last.ret[1] = last.args[1]
        /\ last.ret[2] = last.args[1]

\* "foo bar\n" against itself
C21_Witness ==
    /\ last.op = "line_wdiff"
    /\ last.args = <<FooBar, FooBar>>
    /\ last.ret = <<FooBar, FooBar>>

RECURSIVE Remove(_, _)
Remove(s, m) ==
    IF Len(s) < 2 THEN s
    ELSE IF SubSeq(s, 1, 2) = m THEN Remove(SubSeq(s, 3, Len(s)), m)
    ELSE <<Head(s)>> \o Remove(Tail(s), m)

\* s contains the two-character string m
Contains(s, m) == \E k \in 1..(Len(s) - 1) : SubSeq(s, k, k + 1) = m

\* the text of s outside the spans from open to close
RECURSIVE Outside(_, _, _, _)
Outside(s, open, close, inside) ==
    IF s = <<>> THEN <<>>
    ELSE IF ~inside /\ Len(s) >= 2 /\ SubSeq(s, 1, 2) = open
    THEN Outside(SubSeq(s, 3, Len(s)), open, close, TRUE)
    ELSE IF inside /\ Len(s) >= 2 /\ SubSeq(s, 1, 2) = close
    THEN Outside(SubSeq(s, 3, Len(s)), open, close, FALSE)
    ELSE IF inside THEN Outside(Tail(s), open, close, TRUE)
    ELSE <<Head(s)>> \o Outside(Tail(s), open, close, FALSE)

\* the line contains none of "{+", "+}", "[-", "-]"
NoMarkerString(l) ==
    \A m \in {OpenAdded, CloseAdded, OpenRemoved, CloseRemoved} : ~Contains(l, m)

\* the line contains none of the characters of the markers
MarkerCharacters == {123, 43, 125, 91, 45, 93}
NoMarkerCharacter(l) == \A k \in 1..Len(l) : l[k] \notin MarkerCharacters

\* s with every occurrence of one marker removed, then every occurrence of the
\* other
Unmarked(s, first, second) == Remove(Remove(s, first), second)

\* the text outside the markers is the same in the two renderings
SameOutside(added, removed) ==
    Outside(added, OpenAdded, CloseAdded, FALSE)
        = Outside(removed, OpenRemoved, CloseRemoved, FALSE)

\* C23, as the claim states it: for lines that contain none of the marker
\* strings, the added rendering with every "{+" and "+}" removed (in one order
\* or the other) is the new line and the removed rendering with every "[-" and
\* "-]" removed is the old line, the common text passing through outside the
\* markers
C23_AsStated ==
    (/\ last.op = "line_wdiff"
     /\ NoMarkerString(last.args[1])
     /\ NoMarkerString(last.args[2])) =>
        /\ \/ Unmarked(last.ret[1], OpenAdded, CloseAdded) = last.args[2]
           \/ Unmarked(last.ret[1], CloseAdded, OpenAdded) = last.args[2]
        /\ \/ Unmarked(last.ret[2], OpenRemoved, CloseRemoved) = last.args[1]
           \/ Unmarked(last.ret[2], CloseRemoved, OpenRemoved) = last.args[1]
        /\ SameOutside(last.ret[1], last.ret[2])

\* C23, amended: the same, in whichever order the markers are removed, for
\* lines that contain none of the characters "{", "+", "}", "[", "-", "]" of
\* which the markers are made
C23_MarkersOnly ==
    (/\ last.op = "line_wdiff"
     /\ NoMarkerCharacter(last.args[1])
     /\ NoMarkerCharacter(last.args[2])) =>
        /\ Unmarked(last.ret[1], OpenAdded, CloseAdded) = last.args[2]
        /\ Unmarked(last.ret[1], CloseAdded, OpenAdded) = last.args[2]
        /\ Unmarked(last.ret[2], OpenRemoved, CloseRemoved) = last.args[1]
        /\ Unmarked(last.ret[2], CloseRemoved, OpenRemoved) = last.args[1]
        /\ SameOutside(last.ret[1], last.ret[2])

\* "ab" against "ba": "{+b+}a" and "a[-b-]"
C23_Witness ==
    /\ last.op = "line_wdiff"
    /\ last.args = <<(<<97, 98>>), (<<98, 97>>)>>
    /\ last.ret[1] = OpenAdded \o <<98>> \o CloseAdded \o <<97>>
    /\ last.ret[2] = <<97>> \o OpenRemoved \o <<98>> \o CloseRemoved

----------------------------------------------------------------------------
(* Properties of the writes and deletes of the store, step by step (Spec) *)

\* where a write under name puts the copy of a path of the tested tree
StoredAs(name, p) == Target(name) \o relative_to(p, TESTED)

\* nothing stands in the way of the directory q: no file at q or above it
CanMakeDir(q) == \A x \in Ancestors(q) : exists(fs, x) => is_dir(fs, x)

\* the file p of the tested tree can be copied to q: it can be read, the
\* directory of q can be made and q is free or a file that can be written
CanCopyFile(p, q) ==
    /\ fs[p].readable
    /\ CanMakeDir(parent(q))
    /\ exists(fs, q) => (is_file(fs, q) /\ fs[q].readable)

\* C24: a write of a directory that fails is not rolled back: the error
\* reaches the caller (a file of the tree that cannot be read is enough for
\* one), no entry that was there before the write is removed, and every
\* directory and file of the tree that could be copied is at the destination
C24_NoRollback ==
    [][(last'.op = "write" /\ is_dir(fs, TESTED)) =>
          /\ (\E p \in Below(fs, TESTED) : is_file(fs, p) /\ ~fs[p].readable)
                => last'.raised # "none"
          /\ last'.raised # "none" =>
                /\ DOMAIN fs \subseteq DOMAIN fs'
                /\ \A p \in {TESTED} \cup Below(fs, TESTED) :
                      /\ (is_dir(fs, p) /\ CanMakeDir(StoredAs(last'.name, p)))
                            => is_dir(fs', StoredAs(last'.name, p))
                      /\ (is_file(fs, p) /\ CanCopyFile(p, StoredAs(last'.name, p)))
                            => fs'[StoredAs(last'.name, p)] = FileNode(fs[p].data, TRUE)]_vars

\* a failed write under a fresh name that left the file a at the destination
C24_Witness ==
    /\ last.op = "write"
    /\ last.fresh
    /\ last.raised # "none"
    /\ is_file(fs, TESTED \o <<"b">>) /\ ~fs[TESTED \o <<"b">>].readable
    /\ is_file(fs, Target(last.name) \o <<"a">>)
    /\ ~exists(fs, Target(last.name) \o <<"b">>)

----------------------------------------------------------------------------
(* Properties of a write over a stored directory (SpecMerge) *)

\* the path of the tested tree that a write under name stores at q
SourceOf(name, q) == TESTED \o relative_to(q, Target(name))

\* the tested tree has an entry at the relative path of the stored path q
SourceAt(name, q) == IsPrefix(Target(name), q) /\ exists(fs, SourceOf(name, q))

\* C26 as stated: a write of a directory over a stored one leaves every stored
\* entry in place unless the tested tree has an entry at the same relative
\* path, and then, the write having returned, that entry has taken its place
C26_AsStated ==
    [][(last'.op = "write" /\ is_dir(fs, TESTED)) =>
          \A q \in Below(fs, Target(last'.name)) :
              IF SourceAt(last'.name, q)
              THEN last'.raised = "none" =>
                      /\ fs'[q].kind = fs[SourceOf(last'.name, q)].kind
                      /\ fs'[q].data = fs[SourceOf(last'.name, q)].data
              ELSE q \in DOMAIN fs']_vars

\* C26: a write of a directory over a stored one removes nothing and turns no
\* stored file into a directory or directory into a file; when it returns,
\* every file of the tested tree is copied over the stored file at its
\* relative path, or into the stored directory at that path
C26_MergeKeeps ==
    [][(last'.op = "write" /\ is_dir(fs, TESTED)) =>
          /\ \A q \in DOMAIN fs : q \in DOMAIN fs' /\ fs'[q].kind = fs[q].kind
          /\ last'.raised = "none" =>
                \A p \in Below(fs, TESTED) :
                    is_file(fs, p) =>
                       fs'[real_dst(fs, p, StoredAs(last'.name, p))] = FileNode(fs[p].data, TRUE)]_vars

\* a write that returned, over a stored directory: an entry that the tested
\* tree does not have is still there, and so is the marker of a directory
\* that has a file by now
C26_Witness ==
    /\ last.op = "write" /\ ~last.fresh /\ last.raised = "none"
    /\ is_dir(fs, TESTED)
    /\ \E q \in Below(fs, Target(last.name)) : ~SourceAt(last.name, q) /\ basename(q) # GITKEEPER
    /\ \E d \in Below(fs, TESTED) :
          /\ is_dir(fs, d) /\ listdir(fs, d) = {"a"}
          /\ is_file(fs, Stored(d) \o <<GITKEEPER>>)
          /\ is_file(fs, Stored(d) \o <<"a">>)

----------------------------------------------------------------------------
(* Properties of a delete and the names it is given (Spec) *)

====
